---- MODULE Spec2Model ----
(***************************************************************************)
(* Model of backend/backend_app.py: the in-memory blog post collection     *)
(* POSTS and the five Flask route handlers get_posts, search_posts,        *)
(* create_post, update_post and delete_post.  Each request runs to         *)
(* completion before the next one starts, so every handler is one action.  *)
(*                                                                         *)
(* Text is a sequence of ASCII codes, so that str.lower(), the ordering of *)
(* strings and the substring test are computed, not assumed.               *)
(***************************************************************************)
EXTENDS Integers, Sequences, FiniteSets, TLC

VARIABLES POSTS, request, response

vars == <<POSTS, request, response>>

\* Create is not offered once the next id would exceed MaxId (ids are unbounded
\* in the program).
MaxId == 3

----------------------------------------------------------------------------
\* JSON values that can stand in a field of a post or of a request body.

\* Text and null stand for the values a JSON body can put in a field: null is
\* the value that is not text.
Str(s) == [t |-> "str", s |-> s]
Null == [t |-> "null", s |-> <<>>]

IsText(v) == v.t = "str"

\* Texts used by the seed data and by the requests.
T_title == <<116, 105, 116, 108, 101>>
T_content == <<99, 111, 110, 116, 101, 110, 116>>
T_date == <<100, 97, 116, 101>>
T_asc == <<97, 115, 99>>
T_desc == <<100, 101, 115, 99>>
T_DESC == <<68, 69, 83, 67>>
T_up == <<117, 112>>
T_FIRST == <<70, 73, 82, 83, 84>>
T_a == <<97>>
T_A == <<65>>
T_FirstPost == <<70, 105, 114, 115, 116, 32, 112, 111, 115, 116>>
T_SecondPost == <<83, 101, 99, 111, 110, 100, 32, 112, 111, 115, 116>>
T_FirstContent == <<84, 104, 105, 115, 32, 105, 115, 32, 116, 104, 101, 32, 102, 105, 114, 115, 116, 32, 112, 111, 115, 116, 46>>
T_SecondContent == <<84, 104, 105, 115, 32, 105, 115, 32, 116, 104, 101, 32, 115, 101, 99, 111, 110, 100, 32, 112, 111, 115, 116, 46>>

\* The name of a field of a post, as text.
FieldText(field) == IF field = "title" THEN T_title ELSE T_content

\* str.lower() on ASCII text.
LowerChar(c) == IF c >= 65 /\ c <= 90 THEN c + 32 ELSE c
Lower(s) == [i \in 1..Len(s) |-> LowerChar(s[i])]

\* a < b for str: lexicographic by code point, a proper prefix is smaller.
MinLen(a, b) == IF Len(a) < Len(b) THEN Len(a) ELSE Len(b)
TextLess(a, b) ==
    \E k \in 1..(MinLen(a, b) + 1) :
        /\ \A j \in 1..(k - 1) : a[j] = b[j]
        /\ IF k <= MinLen(a, b) THEN a[k] < b[k] ELSE Len(a) < Len(b)

\* q in s for str.
IsSubstring(q, s) ==
    \E i \in 0..(Len(s) - Len(q)) : SubSeq(s, i + 1, i + Len(q)) = q

----------------------------------------------------------------------------
\* The collection.

Post(id, title, content) == [id |-> id, title |-> title, content |-> content]

SeedPosts ==
    << Post(1, Str(T_FirstPost), Str(T_FirstContent)),
       Post(2, Str(T_SecondPost), Str(T_SecondContent)) >>

----------------------------------------------------------------------------
\* Requests.

\* A query parameter of request.args: absent, or present with a text value.
Absent == [present |-> FALSE, s |-> <<>>]
Arg(s) == [present |-> TRUE, s |-> s]

\* request.args.get(name, default)
ArgGet(arg, default) == IF arg.present THEN arg.s ELSE default

\* A request body.  kind "object", "array", "string", "number", "null" is the
\* JSON value the body parses to; kind "malformed" is a body that is missing
\* or does not parse.
ObjectBody(keys, title, content) ==
    [kind |-> "object", keys |-> keys, title |-> title, content |-> content,
     items |-> <<>>, s |-> <<>>, n |-> 0]
EmptyObject == ObjectBody({}, Null, Null)
NullBody == [EmptyObject EXCEPT !.kind = "null"]
MalformedBody == [EmptyObject EXCEPT !.kind = "malformed"]
ArrayBody(items) == [EmptyObject EXCEPT !.kind = "array", !.items = items]
StringBody(s) == [EmptyObject EXCEPT !.kind = "string", !.s = s]
NumberBody(n) == [EmptyObject EXCEPT !.kind = "number", !.n = n]

\* request.get_json(silent=True): None instead of an error for a body that
\* does not parse.
GetJsonSilent(body) == IF body.kind = "malformed" THEN NullBody ELSE body

\* bool(data)
Truthy(data) ==
    CASE data.kind = "object" -> data.keys # {}
      [] data.kind = "array" -> data.items # <<>>
      [] data.kind = "string" -> data.s # <<>>
      [] data.kind = "number" -> data.n # 0
      [] OTHER -> FALSE

\* field in data: "yes", "no", or "raise" (TypeError: not iterable).
Contains(field, data) ==
    CASE data.kind = "object" -> IF field \in data.keys THEN "yes" ELSE "no"
      [] data.kind = "array" ->
            IF \E i \in 1..Len(data.items) : data.items[i] = Str(FieldText(field))
            THEN "yes" ELSE "no"
      [] data.kind = "string" ->
            IF IsSubstring(FieldText(field), data.s) THEN "yes" ELSE "no"
      [] OTHER -> "raise"

\* data[field] can be evaluated (no TypeError) only on a dict.
CanGetItem(data) == data.kind = "object"
GetItem(data, field) == IF field = "title" THEN data.title ELSE data.content

\* data or {}
OrEmpty(data) == IF Truthy(data) THEN data ELSE EmptyObject

NoRequest ==
    [op |-> "none", id |-> 0, sort |-> Absent, direction |-> Absent,
     title |-> Absent, content |-> Absent, data |-> MalformedBody]

----------------------------------------------------------------------------
\* Responses.  error is the name of the error in the error taxonomy:
\* "ValidationError" is 'Missing fields: [...]', "InvalidField" is 'Invalid
\* sort field. Allowed: title, content', "InvalidDirection" is 'Invalid
\* direction. Allowed: asc, desc', "NotFound" is 'Post not found';
\* "Unhandled" is an exception that leaves the handler (HTTP 500).

\* body says what the JSON of the response is: a list of posts ("posts"), one
\* post ("post"), {"message": ...} naming an id ("message") or {"error": ...}.
NoResponse ==
    [status |-> 0, body |-> "none", error |-> "", missing |-> <<>>,
     posts |-> <<>>, id |-> 0]
PostsResponse(posts) ==
    [NoResponse EXCEPT !.status = 200, !.body = "posts", !.posts = posts]
PostResponse(status, post) ==
    [NoResponse EXCEPT !.status = status, !.body = "post", !.posts = <<post>>]
ErrorResponse(status, error) ==
    [NoResponse EXCEPT !.status = status, !.body = "error", !.error = error]
MissingResponse(missing) ==
    [NoResponse EXCEPT !.status = 400, !.body = "error",
                       !.error = "ValidationError", !.missing = missing]
MessageResponse(id) ==
    [NoResponse EXCEPT !.status = 200, !.body = "message", !.id = id]
Unhandled == ErrorResponse(500, "Unhandled")

\* What a handler leaves behind: the collection and the response.
Outcome(posts, resp) == [posts |-> posts, resp |-> resp]

----------------------------------------------------------------------------
\* get_posts (GET /api/posts)

\* sorted(posts, key=..., reverse=...): the place of x in an already sorted
\* list is before the first element it must precede; equal keys keep their
\* order, also under reverse=True.
Precedes(x, y, field, reverse) ==
    IF reverse THEN TextLess(Lower(y[field].s), Lower(x[field].s))
               ELSE TextLess(Lower(x[field].s), Lower(y[field].s))

InsertSorted(sorted, x, field, reverse) ==
    LET before == {i \in 1..Len(sorted) : Precedes(x, sorted[i], field, reverse)}
        at == IF before = {} THEN Len(sorted) + 1
              ELSE CHOOSE i \in before : \A j \in before : i <= j
    IN  SubSeq(sorted, 1, at - 1) \o <<x>> \o SubSeq(sorted, at, Len(sorted))

RECURSIVE SortedPrefix(_, _, _, _)
SortedPrefix(posts, n, field, reverse) ==
    IF n = 0 THEN <<>>
    ELSE InsertSorted(SortedPrefix(posts, n - 1, field, reverse), posts[n],
                      field, reverse)

Sorted(posts, field, reverse) == SortedPrefix(posts, Len(posts), field, reverse)

\* p[sort_field].lower() raises AttributeError unless the value is a str.
KeyRaises(posts, field) == \E i \in 1..Len(posts) : ~IsText(posts[i][field])

GetPosts(posts, sort, direction) ==
    LET dir == ArgGet(direction, T_asc)
        field == IF sort.s = T_title THEN "title" ELSE "content"
    IN  IF ~sort.present /\ ~direction.present THEN PostsResponse(posts)
        ELSE IF sort.present THEN
            IF sort.s \notin {T_title, T_content}
                THEN ErrorResponse(400, "InvalidField")
            ELSE IF Lower(dir) \notin {T_asc, T_desc}
                THEN ErrorResponse(400, "InvalidDirection")
            ELSE IF KeyRaises(posts, field) THEN Unhandled
            ELSE PostsResponse(Sorted(posts, field, Lower(dir) = T_desc))
        ELSE PostsResponse(posts)

----------------------------------------------------------------------------
\* search_posts (GET /api/posts/search)

\* One clause of the filter, (query and query in post[field].lower()):
\* "yes", "no" or "raise" (AttributeError on a value that is not a str).
Clause(query, value) ==
    IF query = <<>> THEN "no"
    ELSE IF ~IsText(value) THEN "raise"
    ELSE IF IsSubstring(query, Lower(value.s)) THEN "yes" ELSE "no"

\* The filter on one post: the content clause is evaluated only when the
\* title clause is false.
Matches(post, title_query, content_query) ==
    LET t == Clause(title_query, post.title)
    IN  IF t = "no" THEN Clause(content_query, post.content) ELSE t

RECURSIVE Filter(_, _, _)
Filter(posts, title_query, content_query) ==
    IF posts = <<>> THEN <<>>
    ELSE (IF Matches(Head(posts), title_query, content_query) = "yes"
          THEN <<Head(posts)>> ELSE <<>>)
         \o Filter(Tail(posts), title_query, content_query)

SearchPosts(posts, title, content) ==
    LET title_query == Lower(ArgGet(title, <<>>))
        content_query == Lower(ArgGet(content, <<>>))
    IN  IF title_query = <<>> /\ content_query = <<>> THEN PostsResponse(posts)
        ELSE IF \E i \in 1..Len(posts) :
                    Matches(posts[i], title_query, content_query) = "raise"
            THEN Unhandled
        ELSE PostsResponse(Filter(posts, title_query, content_query))

----------------------------------------------------------------------------
\* create_post (POST /api/posts)

RequiredFields == <<"title", "content">>

\* not data or field not in data
IsMissing(field, data) == ~Truthy(data) \/ Contains(field, data) = "no"

\* [field for field in ('title', 'content') if not data or field not in data]
Missing(data) == SelectSeq(RequiredFields, LAMBDA field : IsMissing(field, data))

\* The membership test of the comprehension raises TypeError.
MissingRaises(data) ==
    Truthy(data) /\ \E i \in 1..Len(RequiredFields) :
                        Contains(RequiredFields[i], data) = "raise"

MaxOf(S) == CHOOSE m \in S : \A x \in S : x <= m

\* A variant of NewId that counts the posts instead of taking the largest id.
NewId_count(posts) == Len(posts) + 1

NewId(posts) ==
    IF posts # <<>> THEN MaxOf({posts[i].id : i \in 1..Len(posts)}) + 1 ELSE 1

\* A variant of AppendPost that inserts at the front.
AppendPost_front(posts, post) == <<post>> \o posts

AppendPost(posts, post) == Append(posts, post)

CreatePost(posts, data) ==
    IF MissingRaises(data) THEN Outcome(posts, Unhandled)
    ELSE IF Missing(data) # <<>> THEN Outcome(posts, MissingResponse(Missing(data)))
    ELSE IF ~CanGetItem(data) THEN Outcome(posts, Unhandled)
    ELSE LET new_post == Post(NewId(posts), GetItem(data, "title"),
                              GetItem(data, "content"))
         IN  Outcome(AppendPost(posts, new_post), PostResponse(201, new_post))

----------------------------------------------------------------------------
\* update_post (PUT /api/posts/<id>) and delete_post (DELETE /api/posts/<id>)

\* A variant of FindPost that compares with >= instead of ==.
FindPost_ge(posts, post_id) ==
    LET found == {i \in 1..Len(posts) : posts[i].id >= post_id}
    IN  IF found = {} THEN 0 ELSE CHOOSE i \in found : \A j \in found : i <= j

\* next((post for post in POSTS if post['id'] == post_id), None), as the index
\* of the post in the collection; 0 is None.
FindPost(posts, post_id) ==
    LET found == {i \in 1..Len(posts) : posts[i].id = post_id}
    IN  IF found = {} THEN 0 ELSE CHOOSE i \in found : \A j \in found : i <= j

\* A variant of AssignField that assigns data.get(field) unconditionally.
AssignField_get(post, field, data) ==
    [post EXCEPT ![field] = IF Contains(field, data) = "yes"
                            THEN GetItem(data, field) ELSE Null]

\* if field in data: post[field] = data[field]
AssignField(post, field, data) ==
    IF Contains(field, data) = "yes"
    THEN [post EXCEPT ![field] = GetItem(data, field)] ELSE post

\* The statement above raises TypeError.
AssignRaises(field, data) ==
    \/ Contains(field, data) = "raise"
    \/ Contains(field, data) = "yes" /\ ~CanGetItem(data)

UpdatePost(posts, post_id, body) ==
    LET data == OrEmpty(GetJsonSilent(body))
        at == FindPost(posts, post_id)
        titled == AssignField(posts[at], "title", data)
        updated == AssignField(titled, "content", data)
    IN  IF at = 0 THEN Outcome(posts, ErrorResponse(404, "NotFound"))
        ELSE IF AssignRaises("title", data) THEN Outcome(posts, Unhandled)
        ELSE IF AssignRaises("content", data)
            THEN Outcome([posts EXCEPT ![at] = titled], Unhandled)
        ELSE Outcome([posts EXCEPT ![at] = updated], PostResponse(200, updated))

\* A variant of RemovePost that removes the last element (list.pop()).
RemovePost_pop(posts, post) == SubSeq(posts, 1, Len(posts) - 1)

\* list.remove(x): removes the first element equal to x.
RemovePost(posts, post) ==
    LET at == CHOOSE i \in 1..Len(posts) :
                  posts[i] = post /\ \A j \in 1..(i - 1) : posts[j] # post
    IN  SubSeq(posts, 1, at - 1) \o SubSeq(posts, at + 1, Len(posts))

DeletePost(posts, post_id) ==
    LET at == FindPost(posts, post_id)
    IN  IF at = 0 THEN Outcome(posts, ErrorResponse(404, "NotFound"))
        ELSE Outcome(RemovePost(posts, posts[at]), MessageResponse(post_id))

----------------------------------------------------------------------------
\* The inputs of the requests.

SortArgs == {Absent, Arg(T_title), Arg(T_content), Arg(T_date)}
DirectionArgs == {Absent, Arg(T_asc), Arg(T_DESC), Arg(T_up)}
TitleQueries == {Absent, Arg(<<>>), Arg(T_FIRST)}
ContentQueries == {Absent, Arg(T_FIRST)}

TitleValues == {Str(T_a), Str(T_A), Null}
ContentValues == {Str(<<>>)}

ObjectBodies ==
    {EmptyObject}
    \cup {ObjectBody({"title"}, t, Null) : t \in TitleValues}
    \cup {ObjectBody({"content"}, Null, c) : c \in ContentValues}
    \cup {ObjectBody({"title", "content"}, t, c) :
            t \in TitleValues, c \in ContentValues}

\* Bodies that are JSON, but not an object.
OtherBodies ==
    {NullBody, NumberBody(5), StringBody(T_title), StringBody(T_a),
     ArrayBody(<<Str(T_title), Str(T_content)>>)}

\* create_post reads the body with get_json(): a body that does not parse is
\* answered by the framework before the handler's code runs.
CreateBodies == ObjectBodies \cup OtherBodies
UpdateBodies == ObjectBodies \cup OtherBodies \cup {MalformedBody}

PostIds == 1..MaxId

----------------------------------------------------------------------------
\* The state machine.

Init ==
    /\ POSTS = SeedPosts
    /\ request = NoRequest
    /\ response = NoResponse

List ==
    \E sort \in SortArgs, direction \in DirectionArgs :
        /\ request' = [NoRequest EXCEPT !.op = "list", !.sort = sort,
                                        !.direction = direction]
        /\ response' = GetPosts(POSTS, sort, direction)
        /\ UNCHANGED POSTS

Search ==
    \E title \in TitleQueries, content \in ContentQueries :
        /\ request' = [NoRequest EXCEPT !.op = "search", !.title = title,
                                        !.content = content]
        /\ response' = SearchPosts(POSTS, title, content)
        /\ UNCHANGED POSTS

Create ==
    \E data \in CreateBodies :
        /\ NewId(POSTS) <= MaxId
        /\ request' = [NoRequest EXCEPT !.op = "create", !.data = data]
        /\ POSTS' = CreatePost(POSTS, data).posts
        /\ response' = CreatePost(POSTS, data).resp

Update ==
    \E post_id \in PostIds, body \in UpdateBodies :
        /\ request' = [NoRequest EXCEPT !.op = "update", !.id = post_id,
                                        !.data = body]
        /\ POSTS' = UpdatePost(POSTS, post_id, body).posts
        /\ response' = UpdatePost(POSTS, post_id, body).resp

Delete ==
    \E post_id \in PostIds :
        /\ request' = [NoRequest EXCEPT !.op = "delete", !.id = post_id]
        /\ POSTS' = DeletePost(POSTS, post_id).posts
        /\ response' = DeletePost(POSTS, post_id).resp

Next == List \/ Search \/ Create \/ Update \/ Delete

Spec == Init /\ [][Next]_vars

----------------------------------------------------------------------------
\* Properties.  A step with request'.op = "x" that changes the state is a
\* step of the handler x: POSTS is the collection before the request, POSTS'
\* the collection after it, response' what the handler returned.

Live(posts, id) == \E i \in 1..Len(posts) : posts[i].id = id

AllText(posts) ==
    \A i \in 1..Len(posts) : IsText(posts[i].title) /\ IsText(posts[i].content)

\* C1: in every reachable state no two live posts have the same id.
UniqueIds ==
    \A i, j \in 1..Len(POSTS) : i # j => POSTS[i].id # POSTS[j].id

\* A Create returned id 2 again, after the seed post 2 had been deleted.
UniqueIds_Witness ==
    /\ request.op = "create" /\ response.status = 201
    /\ Len(POSTS) = 2 /\ POSTS[1].id = 1
    /\ response.posts = <<POSTS[2]>> /\ POSTS[2].id = 2

\* C2: a successful Create returns a post whose id is the largest live id
\* plus one (1 on an empty collection) and appends it as the last element,
\* leaving the posts that were live, and their order, as they were.
CreateAppendsNextId ==
    [][(request'.op = "create" /\ response'.status = 201) =>
        /\ response'.body = "post" /\ Len(response'.posts) = 1
        /\ LET new == response'.posts[1]
           IN  /\ IF POSTS = <<>> THEN new.id = 1
                  ELSE /\ \E i \in 1..Len(POSTS) : new.id = POSTS[i].id + 1
                       /\ \A i \in 1..Len(POSTS) : POSTS[i].id < new.id
               /\ Len(POSTS') = Len(POSTS) + 1
               /\ POSTS'[Len(POSTS')] = new
               /\ \A i \in 1..Len(POSTS) : POSTS'[i] = POSTS[i]
               /\ new.title = request'.data.title
               /\ new.content = request'.data.content]_vars

\* A Create succeeded on a collection that held only the post with id 2.
CreateAppendsNextId_Witness ==
    /\ request.op = "create" /\ response.status = 201
    /\ Len(POSTS) = 2 /\ POSTS[1].id = 2 /\ POSTS[2].id = 3
    /\ response.posts = <<POSTS[2]>>

\* A field the claim C3 calls absent, empty or null in the request body.
Lacks(body, field) ==
    \/ body.kind # "object"
    \/ field \notin body.keys
    \/ body[field] = Null
    \/ body[field] = Str(<<>>)

\* C3: Create fails with ValidationError whenever title or content is
\* absent, empty or null in the body; the error lists exactly the lacking
\* required fields, in the order title, content; the collection is unchanged.
CreateRejectsLackingFields ==
    [][(/\ request'.op = "create"
        /\ \E i \in 1..Len(RequiredFields) : Lacks(request'.data, RequiredFields[i]))
       =>
        /\ response'.status = 400
        /\ response'.error = "ValidationError"
        /\ response'.missing =
             SelectSeq(RequiredFields, LAMBDA f : Lacks(request'.data, f))
        /\ POSTS' = POSTS]_vars

\* C4: a successful Update overwrites only the fields present in the input
\* of the post with that id and returns the merged post; the id, the absent
\* fields, every other post and the order are unchanged.  With a missing or
\* malformed body and an existing id, Update succeeds and changes nothing.
UpdateOverwritesPresentFields ==
    [][request'.op = "update" =>
        LET body == request'.data
            present(field) == body.kind = "object" /\ field \in body.keys
        IN  /\ response'.status = 200 =>
                /\ Len(POSTS') = Len(POSTS)
                /\ response'.body = "post"
                /\ \E i \in 1..Len(POSTS) :
                    /\ POSTS[i].id = request'.id
                    /\ POSTS'[i].id = POSTS[i].id
                    /\ POSTS'[i].title =
                         IF present("title") THEN body.title ELSE POSTS[i].title
                    /\ POSTS'[i].content =
                         IF present("content") THEN body.content
                         ELSE POSTS[i].content
                    /\ \A j \in 1..Len(POSTS) : j # i => POSTS'[j] = POSTS[j]
                    /\ response'.posts = <<POSTS'[i]>>
            /\ (body.kind = "malformed" /\ Live(POSTS, request'.id)) =>
                /\ response'.status = 200
                /\ POSTS' = POSTS]_vars

\* Update of post 1 with a body holding only content: the seed title stays.
UpdateOverwritesPresentFields_Witness ==
    /\ request.op = "update" /\ response.status = 200 /\ request.id = 1
    /\ request.data.kind = "object" /\ request.data.keys = {"content"}
    /\ Len(POSTS) >= 1
    /\ POSTS[1] = Post(1, Str(T_FirstPost), request.data.content)
    /\ POSTS[1].content # Str(T_FirstContent)

\* C5: Update and Delete with an id that matches no live post fail with
\* NotFound, whatever the body, and leave the collection exactly as it was.
UnknownIdIsNotFound ==
    [][(request'.op \in {"update", "delete"} /\ ~Live(POSTS, request'.id)) =>
        /\ response'.status = 404
        /\ response'.error = "NotFound"
        /\ POSTS' = POSTS]_vars

\* An Update that names both fields was refused for an id below a live id.
UnknownIdIsNotFound_Witness ==
    /\ request.op = "update" /\ response.status = 404
    /\ request.data.kind = "object" /\ request.data.keys = {"title", "content"}
    /\ Len(POSTS) >= 1 /\ request.id < POSTS[1].id

\* C6: Delete of a live id succeeds and removes exactly the post with that
\* id, keeping the other posts and their order; afterwards no live post has
\* that id, and a Delete of the same id directly after it fails with NotFound.
DeleteRemovesExactlyThePost ==
    [][/\ (request'.op = "delete" /\ Live(POSTS, request'.id)) =>
            /\ response'.status = 200
            /\ response'.body = "message" /\ response'.id = request'.id
            /\ \E i \in 1..Len(POSTS) :
                /\ POSTS[i].id = request'.id
                /\ POSTS' = [j \in 1..(Len(POSTS) - 1) |->
                                IF j < i THEN POSTS[j] ELSE POSTS[j + 1]]
            /\ ~Live(POSTS', request'.id)
       /\ (/\ request.op = "delete" /\ response.status = 200
           /\ request'.op = "delete" /\ request'.id = request.id) =>
            /\ response'.status = 404
            /\ response'.error = "NotFound"
            /\ POSTS' = POSTS]_vars

\* Post 2 was deleted from between two live posts.
DeleteRemovesExactlyThePost_Witness ==
    /\ request.op = "delete" /\ request.id = 2 /\ response.status = 200
    /\ Len(POSTS) = 2 /\ POSTS[1].id = 1 /\ POSTS[2].id = 3

----------------------------------------------------------------------------
\* The claims about List and Search, stated on a step of the handler.

ValidSort(sort) == sort.present /\ sort.s \in {T_title, T_content}
ValidDirection(direction) ==
    Lower(IF direction.present THEN direction.s ELSE T_asc) \in {T_asc, T_desc}
Descending(direction) == direction.present /\ Lower(direction.s) = T_desc
SortField(sort) == IF sort.s = T_title THEN "title" ELSE "content"

\* The case-insensitive value of a field of a post.
Key(post, field) == Lower(post[field].s)

\* What C7 says of a List step.
ListOutcomeOfStep ==
    LET sort == request'.sort
        direction == request'.direction
    IN  /\ ~sort.present =>
            /\ response'.status = 200
            /\ response'.body = "posts"
            /\ response'.posts = POSTS
        /\ (sort.present /\ ~ValidSort(sort)) =>
            /\ response'.status = 400
            /\ response'.error = "InvalidField"
        /\ (ValidSort(sort) /\ ~ValidDirection(direction)) =>
            /\ response'.status = 400
            /\ response'.error = "InvalidDirection"
        /\ (ValidSort(sort) /\ ValidDirection(direction)) =>
            response'.status = 200

\* C7: without sortField List returns the natural order whatever direction
\* is; with sortField it fails with InvalidField on a field other than title
\* and content, with InvalidDirection on a valid field and a direction that
\* is neither asc nor desc (case-insensitively), and succeeds otherwise.
ListOutcome == [][request'.op = "list" => ListOutcomeOfStep]_vars

\* The same on the collections whose titles and contents are all text.
ListOutcome_OnText ==
    [][(request'.op = "list" /\ AllText(POSTS)) => ListOutcomeOfStep]_vars

\* What C8 says of a List step with a valid sort.
SortedListOfStep ==
    LET result == response'.posts
        field == SortField(request'.sort)
        desc == Descending(request'.direction)
        place(post) == CHOOSE i \in 1..Len(POSTS) : POSTS[i] = post
    IN  /\ response'.status = 200
        /\ response'.body = "posts"
        /\ Len(result) = Len(POSTS)
        /\ \A i \in 1..Len(POSTS) : \E j \in 1..Len(result) : result[j] = POSTS[i]
        /\ \A i, j \in 1..Len(result) : i < j =>
            /\ IF desc THEN ~TextLess(Key(result[i], field), Key(result[j], field))
                       ELSE ~TextLess(Key(result[j], field), Key(result[i], field))
            /\ Key(result[i], field) = Key(result[j], field) =>
                place(result[i]) < place(result[j])
        /\ POSTS' = POSTS

\* C8: a valid sorted List returns a permutation of the live posts ordered
\* by the case-insensitive value of the field, ascending or descending; posts
\* with equal keys keep their natural order in both directions; the stored
\* collection is unchanged.
SortedList ==
    [][(/\ request'.op = "list" /\ ValidSort(request'.sort)
        /\ ValidDirection(request'.direction)) => SortedListOfStep]_vars

\* The same on the collections whose titles and contents are all text.
SortedList_OnText ==
    [][(/\ request'.op = "list" /\ ValidSort(request'.sort)
        /\ ValidDirection(request'.direction) /\ AllText(POSTS))
       => SortedListOfStep]_vars

\* What C9 says of a Search step.
SearchOfStep ==
    LET term(arg) == IF arg.present THEN arg.s ELSE <<>>
        titleSubstr == term(request'.title)
        contentSubstr == term(request'.content)
        hit(post) ==
            \/ /\ titleSubstr # <<>>
               /\ IsSubstring(Lower(titleSubstr), Key(post, "title"))
            \/ /\ contentSubstr # <<>>
               /\ IsSubstring(Lower(contentSubstr), Key(post, "content"))
    IN  /\ response'.status = 200
        /\ response'.body = "posts"
        /\ POSTS' = POSTS
        /\ IF titleSubstr = <<>> /\ contentSubstr = <<>>
           THEN response'.posts = POSTS
           ELSE response'.posts = SelectSeq(POSTS, hit)

\* C9: Search returns, in natural order and without changing the
\* collection, the whole collection when both terms are absent or empty, and
\* otherwise exactly the posts whose title contains the non-empty title term
\* or whose content contains the non-empty content term, case-insensitively.
SearchResult == [][request'.op = "search" => SearchOfStep]_vars

\* The same on the collections whose titles and contents are all text.
SearchResult_OnText ==
    [][(request'.op = "search" /\ AllText(POSTS)) => SearchOfStep]_vars

\* C10: every operation ends with a result or one of the defined errors,
\* never in an unhandled failure, and the title and content of every stored
\* post remain text.
Total ==
    /\ response.error \in {"", "ValidationError", "InvalidField",
                           "InvalidDirection", "NotFound"}
    /\ response.status # 500
    /\ AllText(POSTS)

====
